---- MODULE Spec2Model ----
(***************************************************************************)
(* Model of lingpycldf/lexstat.py: the bridge from a CLDF word list to     *)
(* LingPy's flat word list (to_lingpy), the bad-token scan                 *)
(* (find_bad_tokens), the cognate-table builder (cognatetable_from_lingpy) *)
(* and the command-line pipeline of the __main__ block.                    *)
(*                                                                         *)
(* A Python str is a sequence of one-character strings.  A cell of a       *)
(* LingPy row carries its Python type, because lingpy_write dispatches on  *)
(* type(entry) == str.                                                     *)
(***************************************************************************)
EXTENDS Integers, Sequences, FiniteSets, TLC

VARIABLES
    wordlist,          \* rows of the CLDF FormTable, in native order
    replace_tab,       \* to_lingpy parameter
    replace_newline,   \* to_lingpy parameter
    lpwl,              \* the dict built by to_lingpy; lpwl[k+1] is key k
    hadTable,          \* the dataset had a CognateTable when the run began
    hasCognateTable,   \* the dataset has a CognateTable component now
    args,              \* parsed command line: method, overwrite, bad_tokens_log
    lexstat,           \* the module-global name `lexstat`: bound or not, and its rows
    lingpy,            \* the argument handed to cognatetable_from_lingpy
    column,            \* the column argument of cognatetable_from_lingpy
    classify,          \* the phonetic classifier behind lingpy.tokens2class
    bad_tokens,        \* the dict returned by find_bad_tokens
    cognates,          \* the list returned by cognatetable_from_lingpy
    written,           \* cognate_table.write has been called
    engineLog,         \* calls made on the LingPy engine, in order
    failedOp,          \* the step whose exception ended the run, or "none"
    exception,         \* the exception that ended the call or the run, or "none"
    exitCode,          \* the process exit code, -1 while running
    pc                 \* position in the script or the call

vars == <<wordlist, replace_tab, replace_newline, lpwl, hadTable,
          hasCognateTable, args, lexstat, lingpy, column, classify,
          bad_tokens, cognates, written, engineLog, failedOp, exception,
          exitCode, pc>>

----------------------------------------------------------------------------
(* Bounds of the model *)

\* longest FormTable / result table that is drawn
MaxForms == 2
\* most tokens a drawn table holds over all its rows
MaxTokens == 2

----------------------------------------------------------------------------
(* Characters, strings and typed cells *)

TAB == "\t"
NL == "\n"

\* the right operand of `x not in "(,_.-;)"`
Forbidden == <<"(", ",", "_", ".", "-", ";", ")">>

PyStr(v) == [type |-> "str", val |-> v]
PyInt(n) == [type |-> "int", val |-> n]
PyList(l) == [type |-> "list", val |-> l]

\* str.replace(old, new) for a one-character old
RECURSIVE Replace(_, _, _)
Replace(s, old, new) ==
    IF s = <<>> THEN <<>>
    ELSE (IF Head(s) = old THEN new ELSE <<Head(s)>>) \o Replace(Tail(s), old, new)

\* x in s for two Python strings: x is a contiguous substring of s
PyIn(x, s) ==
    \E i \in 0..(Len(s) - Len(x)) : SubSeq(s, i + 1, i + Len(x)) = x

\* ''.join(tokens)
RECURSIVE Join(_)
Join(tokens) ==
    IF tokens = <<>> THEN <<>> ELSE Head(tokens) \o Join(Tail(tokens))

\* [x for x in row[tokens] if x not in "(,_.-;)"]
KeepToken(x) == ~PyIn(x, Forbidden)
CleanTokens(tokens) == SelectSeq(tokens, KeepToken)

\* `not row[tokens]`: the field is None or an empty list
FalsyOnlyNone(field) == ~field.present
Falsy(field) == ~field.present \/ field.val = <<>>

----------------------------------------------------------------------------
(* to_lingpy *)

\* lingpy_write(entries): lpwl[len(lpwl)] = [sanitized entries]
lingpy_write(d, entries, rt, rn) ==
    Append(d, [i \in DOMAIN entries |->
                 IF entries[i].type = "str"
                 THEN PyStr(Replace(Replace(entries[i].val, TAB, rt), NL, rn))
                 ELSE entries[i]])

Header == << PyStr(<<"I", "D">>),
             PyStr(<<"R", "E", "F", "E", "R", "E", "N", "C", "E">>),
             PyStr(<<"D", "O", "C", "U", "L", "E", "C", "T">>),
             PyStr(<<"C", "O", "N", "C", "E", "P", "T">>),
             PyStr(<<"I", "P", "A">>),
             PyStr(<<"T", "O", "K", "E", "N", "S">>) >>

\* the list built for one form at enumerate index r
lingpy_row(r, row) ==
    << PyInt(r + 1), PyStr(row.id), PyStr(row.languageReference),
       PyStr(row.parameterReference), PyStr(Join(row.soundSequence.val)),
       PyList(CleanTokens(row.soundSequence.val)) >>

\* the for loop over enumerate(iterdicts()), from index r on
RECURSIVE ToLingpyLoop(_, _, _, _, _)
ToLingpyLoop(rows, r, d, rt, rn) ==
    IF r >= Len(rows) THEN d
    ELSE IF Falsy(rows[r + 1].soundSequence)
         THEN ToLingpyLoop(rows, r + 1, d, rt, rn)
         ELSE ToLingpyLoop(rows, r + 1,
                           lingpy_write(d, lingpy_row(r, rows[r + 1]), rt, rn),
                           rt, rn)

to_lingpy(rows, rt, rn) ==
    ToLingpyLoop(rows, 0, lingpy_write(<<>>, Header, rt, rn), rt, rn)

----------------------------------------------------------------------------
(* Input pools *)

IdPool == { <<"f">>, <<"g", TAB>> }
LangPool == { <<"d", NL>> }
ConceptPool == { <<"c", TAB, NL>> }
TokenPool == { <<>>, <<"a">>, <<",">>, <<",", "_">>, <<TAB>> }
ReplPool == { <<" ">>, <<TAB>> }

Absent == [present |-> FALSE, val |-> <<>>]
Present(seq) == [present |-> TRUE, val |-> seq]

\* ks[1] + ... + ks[i]
RECURSIVE SumTo(_, _)
SumTo(ks, i) == IF i = 0 THEN 0 ELSE ks[i] + SumTo(ks, i - 1)

\* the soundSequence field of form i: ks[i] tokens taken from toks, and for
\* no tokens either None or the empty list
TokenField(ks, none, toks, i) ==
    IF ks[i] = 0
    THEN (IF none[i] THEN Absent ELSE Present(<<>>))
    ELSE Present(SubSeq(toks, SumTo(ks, i - 1) + 1, SumTo(ks, i)))

\* the shapes of a table: the number of tokens of each of at most n rows,
\* at most t tokens in all
Shapes(n, t) ==
    UNION { {ks \in [1..m -> 0..t] : SumTo(ks, m) <= t} : m \in 0..n }

MakeWordlist(ks, ids, langs, concepts, none, toks) ==
    [i \in DOMAIN ks |->
        [id |-> ids[i], languageReference |-> langs[i],
         parameterReference |-> concepts[i],
         soundSequence |-> TokenField(ks, none, toks, i)]]

\* wl is a word list of at most n forms that hold at most t tokens in all
IsDataset(wl, n, t) ==
    \E ks \in Shapes(n, t) :
      \E ids \in [DOMAIN ks -> IdPool], langs \in [DOMAIN ks -> LangPool],
         concepts \in [DOMAIN ks -> ConceptPool],
         none \in [DOMAIN ks -> BOOLEAN],
         toks \in [1..SumTo(ks, Len(ks)) -> TokenPool] :
        wl = MakeWordlist(ks, ids, langs, concepts, none, toks)

----------------------------------------------------------------------------
(* Values of the variables a specification does not use *)

NoArgs == [method |-> "sca", overwrite |-> FALSE, bad_tokens_log |-> FALSE]
Unbound == [bound |-> FALSE, data |-> <<>>]
Bound(rows) == [bound |-> TRUE, data |-> rows]
EmptyDict == <<>>

IdleBridge ==
    /\ wordlist = <<>> /\ replace_tab = <<" ">> /\ replace_newline = <<" ">>
    /\ lpwl = <<>>
IdleMain ==
    /\ hadTable = FALSE /\ hasCognateTable = FALSE /\ args = NoArgs
    /\ written = FALSE /\ engineLog = <<>> /\ failedOp = "none"
    /\ exitCode = -1
IdleScan == classify = <<>> /\ bad_tokens = EmptyDict
IdleBuild == lingpy = <<>> /\ column = "cogid" /\ cognates = <<>>

----------------------------------------------------------------------------
(* Specification of to_lingpy as a library call *)

InitBridge ==
    /\ IsDataset(wordlist, MaxForms, MaxTokens)
    /\ replace_tab \in ReplPool
    /\ replace_newline \in ReplPool
    /\ lpwl = <<>>
    /\ IdleMain /\ IdleScan /\ IdleBuild
    /\ lexstat = Unbound
    /\ exception = "none"
    /\ pc = "to_lingpy"

CallToLingpy ==
    /\ pc = "to_lingpy"
    /\ lpwl' = to_lingpy(wordlist, replace_tab, replace_newline)
    /\ pc' = "returned"
    /\ UNCHANGED <<wordlist, replace_tab, replace_newline, hadTable,
                   hasCognateTable, args, lexstat, lingpy, column, classify,
                   bad_tokens, cognates, written, engineLog, failedOp,
                   exception, exitCode>>

NextBridge == CallToLingpy

SpecBridge == InitBridge /\ [][NextBridge]_vars

----------------------------------------------------------------------------
(* Properties of to_lingpy *)

\* the data rows of the flat table: everything after the header at key 0
DataRows(d) == IF d = <<>> THEN <<>> ELSE Tail(d)

HasTokens(f) == f.soundSequence.present /\ f.soundSequence.val # <<>>
NonEmptyForms(wl) == SelectSeq(wl, HasTokens)

Markers == {"(", ",", "_", ".", "-", ";", ")"}
NotMarker(t) == ~(Len(t) = 1 /\ t[1] \in Markers)

HasTabOrNewline(s) == \E i \in DOMAIN s : s[i] \in {TAB, NL}

\* the origin the position field would count from: the first form's r+1
PositionOrigin == 1

\* C2 as stated: when to_lingpy has returned, its data rows are, one-to-one
\* and in order, the forms with a non-empty token field, and the k-th row's
\* REFERENCE is the k-th such form's identifier unchanged.
C2_ReferenceVerbatim ==
    pc = "returned" =>
        LET rows == DataRows(lpwl)
            forms == NonEmptyForms(wordlist)
        IN  /\ Len(rows) = Len(forms)
            /\ \A k \in DOMAIN rows : rows[k][2] = PyStr(forms[k].id)

\* C2 amended: when to_lingpy has returned, its data rows are, one-to-one and
\* in order, the forms with a non-empty token field (an empty or absent token
\* field yields no row), and the k-th row's REFERENCE is the k-th such form's
\* identifier after every tab was replaced by replace_tab and then every
\* newline by replace_newline; an identifier without tab or newline is
\* carried unchanged.
C2_ReferenceSanitized ==
    pc = "returned" =>
        LET rows == DataRows(lpwl)
            forms == NonEmptyForms(wordlist)
        IN  /\ Len(rows) = Len(forms)
            /\ \A k \in DOMAIN rows :
                 /\ rows[k][2] =
                      PyStr(Replace(Replace(forms[k].id, TAB, replace_tab),
                                    NL, replace_newline))
                 /\ ~HasTabOrNewline(forms[k].id) => rows[k][2] = PyStr(forms[k].id)

\* a skipped form precedes an emitted form whose identifier holds a tab
C2_Witness ==
    /\ pc = "returned"
    /\ Len(wordlist) = 2
    /\ ~HasTokens(wordlist[1])
    /\ HasTokens(wordlist[2])
    /\ HasTabOrNewline(wordlist[2].id)
    /\ Len(lpwl) = 2

\* C3: every emitted row's TOKENS is the form's token sequence without the
\* tokens that are one of the seven one-character markers, every other token
\* kept in order.
C3_OnlyMarkersRemoved ==
    pc = "returned" =>
        LET rows == DataRows(lpwl)
            forms == NonEmptyForms(wordlist)
        IN  \A k \in DOMAIN rows :
              k \in DOMAIN forms =>
                rows[k][6] = PyList(SelectSeq(forms[k].soundSequence.val, NotMarker))

\* C4: the position field of the k-th emitted row is the origin plus k - 1,
\* whatever forms were skipped before it.
C4_PositionsConsecutive ==
    pc = "returned" =>
        LET rows == DataRows(lpwl)
        IN  \A k \in DOMAIN rows : rows[k][1] = PyInt(PositionOrigin + k - 1)

\* C5: with replacement strings free of tab and newline, no field of an
\* emitted row (no token of its TOKENS field) holds a tab or a newline, and
\* no row is dropped.
C5_NoTabOrNewline ==
    (/\ pc = "returned"
     /\ ~HasTabOrNewline(replace_tab)
     /\ ~HasTabOrNewline(replace_newline)) =>
        LET rows == DataRows(lpwl)
        IN  /\ Len(rows) = Len(NonEmptyForms(wordlist))
            /\ \A k \in DOMAIN rows : \A i \in DOMAIN rows[k] :
                 CASE rows[k][i].type = "str" -> ~HasTabOrNewline(rows[k][i].val)
                   [] rows[k][i].type = "list" ->
                        \A j \in DOMAIN rows[k][i].val :
                            ~HasTabOrNewline(rows[k][i].val[j])
                   [] OTHER -> TRUE

----------------------------------------------------------------------------
(* find_bad_tokens *)

\* lingpy.tokens2class(segments, 'dolgo'): one class per segment
tokens2class(segments, cls) == [i \in DOMAIN segments |-> cls[segments[i]]]

\* a variant that records a form at most once per token
SetdefaultAppendOnce(bad, token, form_id) ==
    IF token \in DOMAIN bad
    THEN IF \E i \in DOMAIN bad[token] : bad[token][i] = form_id
         THEN bad
         ELSE [bad EXCEPT ![token] = Append(@, form_id)]
    ELSE [t \in DOMAIN bad \cup {token} |->
            IF t = token THEN <<form_id>> ELSE bad[t]]

\* bad_tokens.setdefault(token, []).append(form_id)
SetdefaultAppend(bad, token, form_id) ==
    IF token \in DOMAIN bad
    THEN [bad EXCEPT ![token] = Append(@, form_id)]
    ELSE [t \in DOMAIN bad \cup {token} |->
            IF t = token THEN <<form_id>> ELSE bad[t]]

\* for token, cls in zip(segments, classes), from position i on
RECURSIVE ScanSegments(_, _, _, _, _)
ScanSegments(bad, segments, classes, form_id, i) ==
    IF i > Len(segments) \/ i > Len(classes) THEN bad
    ELSE ScanSegments(IF classes[i] = "0"
                      THEN SetdefaultAppend(bad, segments[i], form_id)
                      ELSE bad,
                      segments, classes, form_id, i + 1)

\* for k, segments, form_id in wordlist.iter_rows('tokens', "reference"),
\* from row k on
RECURSIVE ScanRows(_, _, _, _)
ScanRows(bad, rows, cls, k) ==
    IF k > Len(rows) THEN bad
    ELSE ScanRows(ScanSegments(bad, rows[k].tokens,
                               tokens2class(rows[k].tokens, cls),
                               rows[k].reference, 1),
                  rows, cls, k + 1)

find_bad_tokens(rows, cls) == ScanRows(EmptyDict, rows, cls, 1)

RefPool == { <<"f">>, <<"g", " ">> }
ScanTokenPool == { <<"a">>, <<TAB>>, <<"?">> }
ClassPool == { "0", "V" }
CogidPool == { 1, 2 }
AlignPool == { <<"a">>, <<"a", "-">> }

\* a table of the engine: one row per flat row
MakeTable(ks, refs, toks, cogids, aligns) ==
    [i \in DOMAIN ks |->
        [reference |-> refs[i],
         tokens |-> SubSeq(toks, SumTo(ks, i - 1) + 1, SumTo(ks, i)),
         cogid |-> cogids[i],
         alignment |-> aligns[i]]]

InitScan ==
    /\ \E ks \in Shapes(MaxForms, MaxTokens) :
         \E refs \in [DOMAIN ks -> RefPool],
            toks \in [1..SumTo(ks, Len(ks)) -> ScanTokenPool] :
           lexstat = Bound(MakeTable(ks, refs, toks,
                                     [i \in DOMAIN ks |-> 1],
                                     [i \in DOMAIN ks |-> <<>>]))
    /\ classify \in [ScanTokenPool -> ClassPool]
    /\ bad_tokens = EmptyDict
    /\ IdleBridge /\ IdleMain /\ IdleBuild
    /\ exception = "none"
    /\ pc = "find_bad_tokens"

CallFindBadTokens ==
    /\ pc = "find_bad_tokens"
    /\ bad_tokens' = find_bad_tokens(lexstat.data, classify)
    /\ pc' = "returned"
    /\ UNCHANGED <<wordlist, replace_tab, replace_newline, lpwl, hadTable,
                   hasCognateTable, args, lexstat, lingpy, column, classify,
                   cognates, written, engineLog, failedOp, exception, exitCode>>

NextScan == CallFindBadTokens

SpecScan == InitScan /\ [][NextScan]_vars

\* the number of times token t occurs in a row's token sequence
Occurrences(t, row) == Cardinality({i \in DOMAIN row.tokens : row.tokens[i] = t})

\* the references of rows k.. of the table, each once per occurrence of t
RECURSIVE ExpectedRefs(_, _, _)
ExpectedRefs(rows, t, k) ==
    IF k > Len(rows) THEN <<>>
    ELSE [j \in 1..Occurrences(t, rows[k]) |-> rows[k].reference]
         \o ExpectedRefs(rows, t, k + 1)

\* the number of occurrences of t over all rows
RECURSIVE SumOccurrencesFrom(_, _, _)
SumOccurrencesFrom(rows, t, k) ==
    IF k > Len(rows) THEN 0
    ELSE Occurrences(t, rows[k]) + SumOccurrencesFrom(rows, t, k + 1)
SumOccurrences(rows, t) == SumOccurrencesFrom(rows, t, 1)

\* C8: the keys of the report are exactly the tokens of the table that the
\* classifier puts in class "0", and each key's list holds one form reference
\* per occurrence of the token, in scan order, repeats included.
C8_BadTokenReport ==
    pc = "returned" =>
        LET rows == lexstat.data
        IN  /\ DOMAIN bad_tokens =
                 {t \in ScanTokenPool :
                    /\ classify[t] = "0"
                    /\ \E k \in DOMAIN rows : Occurrences(t, rows[k]) > 0}
            /\ \A t \in DOMAIN bad_tokens :
                 /\ bad_tokens[t] = ExpectedRefs(rows, t, 1)
                 /\ Len(bad_tokens[t]) = SumOccurrences(rows, t)

\* an invalid token occurs twice within one form and is reported twice
C8_Witness ==
    /\ pc = "returned"
    /\ \E t \in DOMAIN bad_tokens :
         /\ \E k \in DOMAIN lexstat.data : Occurrences(t, lexstat.data[k]) = 2
         /\ Len(bad_tokens[t]) = 2

----------------------------------------------------------------------------
(* cognatetable_from_lingpy *)

\* the body reads the module-global name `lexstat`, not its parameter
cognatetable_from_lingpy(global, param, col) ==
    IF ~global.bound
    THEN [exception |-> "NameError", value |-> <<>>]
    ELSE [exception |-> "none",
          value |-> [r \in DOMAIN global.data |->
                       [ID |-> r - 1,
                        Form_ID |-> global.data[r].reference,
                        Cognateset_ID |-> global.data[r][col],
                        Alignment |-> global.data[r].alignment,
                        Source |-> <<"LexStat">>]]]

\* a caller imports the module and calls the function: the global name is
\* unbound; or the script calls it with the global itself
InitBuild ==
    /\ \E ks \in Shapes(MaxForms, 0) :
         \E refs \in [DOMAIN ks -> RefPool],
            cogids \in [DOMAIN ks -> CogidPool],
            aligns \in [DOMAIN ks -> AlignPool] :
           lingpy = MakeTable(ks, refs, <<>>, cogids, aligns)
    /\ lexstat \in {Unbound, Bound(lingpy)}
    /\ column = "cogid"
    /\ cognates = <<>>
    /\ IdleBridge /\ IdleMain /\ IdleScan
    /\ exception = "none"
    /\ pc = "cognatetable_from_lingpy"

CallCognatetable ==
    /\ pc = "cognatetable_from_lingpy"
    /\ LET res == cognatetable_from_lingpy(lexstat, lingpy, column)
       IN  /\ cognates' = res.value
           /\ exception' = res.exception
    /\ pc' = "returned"
    /\ UNCHANGED <<wordlist, replace_tab, replace_newline, lpwl, hadTable,
                   hasCognateTable, args, lexstat, lingpy, column, classify,
                   bad_tokens, written, engineLog, failedOp, exitCode>>

NextBuild == CallCognatetable

SpecBuild == InitBuild /\ [][NextBuild]_vars

\* C7: the call returns, for the results passed as its argument, one row per
\* result row in order, with a sequential ID, Form_ID the row's reference,
\* Cognateset_ID the row's value in `column`, Alignment the row's alignment
\* and Source the one-element provenance tag.
C7_RowsOfArgument ==
    pc = "returned" =>
        /\ exception = "none"
        /\ Len(cognates) = Len(lingpy)
        /\ \A i \in DOMAIN cognates :
             /\ i \in DOMAIN lingpy
             /\ cognates[i].ID = i - 1
             /\ cognates[i].Form_ID = lingpy[i].reference
             /\ cognates[i].Cognateset_ID = lingpy[i][column]
             /\ cognates[i].Alignment = lingpy[i].alignment
             /\ cognates[i].Source = <<"LexStat">>

----------------------------------------------------------------------------
(* The command-line pipeline of the __main__ block *)

\* the names the module binds at import time; `sys` is not among them
ImportedNames == {"json", "argparse", "pycldf", "Path", "Dataset",
                  "_get_dataset", "lingpy", "Alignments", "LexStat"}

\* sys.exit(code): the name `sys` is looked up first
SysExit(code) ==
    IF "sys" \in ImportedNames
    THEN [exception |-> "SystemExit", exitCode |-> code]
    ELSE [exception |-> "NameError", exitCode |-> 1]

Methods == {"sca", "lexstat", "edit-dist", "turchin"}

\* a variant that never stops at an existing CognateTable
PreflightNeverAborts(has, overwrite) == FALSE

\* add_component raised ValueError and --overwrite was not given
PreflightAborts(has, overwrite) == has /\ ~overwrite

\* a variant that trains the scorer for the lexstat method only
NeedsScorerLexstatOnly(method) == method = "lexstat"

\* if args.method != 'sca'
NeedsScorer(method) == method # "sca"

\* get_scorer(preprocessing=False, runs=10000, ratio=(2,1), vscale=1.0)
ScorerArgs == [preprocessing |-> FALSE, runs |-> 10000, ratio |-> <<2, 1>>,
               vscale |-> 1]

Call(op, a) == [op |-> op, args |-> a]

\* LexStat(lpwl, check=False, segments="tokens"): one engine row per data row
LexStatRows(d) ==
    [k \in DOMAIN DataRows(d) |->
        [reference |-> DataRows(d)[k][2].val,
         tokens |-> DataRows(d)[k][6].val,
         cogid |-> 0,
         alignment |-> <<>>]]

\* the word list of the specification's three-form example (A with tokens,
\* B without, C with the tokens of A), a single skipped form, and no form
FormA == [id |-> <<"f">>, languageReference |-> <<"d", NL>>,
          parameterReference |-> <<"c", TAB, NL>>,
          soundSequence |-> Present(<< <<"a">>, <<",">>, <<TAB>> >>)]
FormB == [id |-> <<"g", TAB>>, languageReference |-> <<"d", NL>>,
          parameterReference |-> <<"c", TAB, NL>>,
          soundSequence |-> Absent]
FormC == [id |-> <<"h">>, languageReference |-> <<"e">>,
          parameterReference |-> <<"c", TAB, NL>>,
          soundSequence |-> Present(<< <<"a">>, <<",">>, <<TAB>> >>)]
MainWordlists == { <<FormA, FormB, FormC>>, <<FormB>>, <<>> }

Init ==
    /\ wordlist \in MainWordlists
    /\ replace_tab = <<" ">>
    /\ replace_newline = <<" ">>
    /\ lpwl = <<>>
    /\ hadTable \in BOOLEAN
    /\ hasCognateTable = hadTable
    /\ args \in [method : Methods, overwrite : BOOLEAN, bad_tokens_log : BOOLEAN]
    /\ lexstat = Unbound
    /\ classify \in [ScanTokenPool -> ClassPool]
    /\ bad_tokens = EmptyDict
    /\ IdleBuild
    /\ written = FALSE
    /\ engineLog = <<>>
    /\ failedOp = "none"
    /\ exception = "none"
    /\ exitCode = -1
    /\ pc = "preflight"

\* an exception that nothing catches ends the process with exit code 1
Crash(op, exc) ==
    /\ pc' = "exited"
    /\ failedOp' = op
    /\ exception' = exc
    /\ exitCode' = 1

\* try: wordlist.add_component("CognateTable") except ValueError: ...
Preflight ==
    /\ pc = "preflight"
    /\ IF PreflightAborts(hasCognateTable, args.overwrite)
       THEN /\ pc' = "exited"
            /\ failedOp' = "preflight"
            /\ exception' = SysExit(2).exception
            /\ exitCode' = SysExit(2).exitCode
            /\ UNCHANGED hasCognateTable
       ELSE /\ hasCognateTable' = TRUE
            /\ pc' = "to_lingpy"
            /\ UNCHANGED <<failedOp, exception, exitCode>>
    /\ UNCHANGED <<wordlist, replace_tab, replace_newline, lpwl, hadTable,
                   args, lexstat, lingpy, column, classify, bad_tokens,
                   cognates, written, engineLog>>

\* lpwl = to_lingpy(wordlist)
Convert ==
    /\ pc = "to_lingpy"
    /\ lpwl' = to_lingpy(wordlist, replace_tab, replace_newline)
    /\ pc' = "LexStat"
    /\ UNCHANGED <<wordlist, replace_tab, replace_newline, hadTable,
                   hasCognateTable, args, lexstat, lingpy, column, classify,
                   bad_tokens, cognates, written, engineLog, failedOp,
                   exception, exitCode>>

\* lexstat = LexStat(lpwl, check=False, segments="tokens")
Construct ==
    /\ pc = "LexStat"
    /\ engineLog' = Append(engineLog, Call("LexStat", <<>>))
    /\ \E ok \in BOOLEAN :
         IF ok
         THEN /\ lexstat' = Bound(LexStatRows(lpwl))
              /\ pc' = "bad_tokens"
              /\ UNCHANGED <<failedOp, exception, exitCode>>
         ELSE /\ Crash("LexStat", "EngineError")
              /\ UNCHANGED lexstat
    /\ UNCHANGED <<wordlist, replace_tab, replace_newline, lpwl, hadTable,
                   hasCognateTable, args, lingpy, column, classify,
                   bad_tokens, cognates, written>>

\* if args.bad_tokens_log: json.dump(find_bad_tokens(lexstat), ...)
\* the classifier may raise; nothing catches it
BadTokensLog ==
    /\ pc = "bad_tokens"
    /\ IF args.bad_tokens_log
       THEN \E ok \in BOOLEAN :
              IF ok
              THEN /\ bad_tokens' = find_bad_tokens(lexstat.data, classify)
                   /\ pc' = "scorer"
                   /\ UNCHANGED <<failedOp, exception, exitCode>>
              ELSE /\ Crash("find_bad_tokens", "ClassifierError")
                   /\ UNCHANGED bad_tokens
       ELSE /\ pc' = "scorer"
            /\ UNCHANGED <<bad_tokens, failedOp, exception, exitCode>>
    /\ UNCHANGED <<wordlist, replace_tab, replace_newline, lpwl, hadTable,
                   hasCognateTable, args, lexstat, lingpy, column, classify,
                   cognates, written, engineLog>>

\* if args.method != 'sca': lexstat.get_scorer(...)
GetScorer ==
    /\ pc = "scorer"
    /\ IF NeedsScorer(args.method)
       THEN /\ engineLog' = Append(engineLog, Call("get_scorer", ScorerArgs))
            /\ \E ok \in BOOLEAN :
                 IF ok
                 THEN /\ pc' = "cluster"
                      /\ UNCHANGED <<failedOp, exception, exitCode>>
                 ELSE Crash("get_scorer", "EngineError")
       ELSE /\ pc' = "cluster"
            /\ UNCHANGED <<engineLog, failedOp, exception, exitCode>>
    /\ UNCHANGED <<wordlist, replace_tab, replace_newline, lpwl, hadTable,
                   hasCognateTable, args, lexstat, lingpy, column, classify,
                   bad_tokens, cognates, written>>

\* lexstat.cluster(method=..., cluster_method=..., ref="cogid", threshold=...)
Cluster ==
    /\ pc = "cluster"
    /\ engineLog' = Append(engineLog, Call("cluster", [method |-> args.method]))
    /\ \/ \E ids \in [DOMAIN lexstat.data -> CogidPool] :
            /\ lexstat' = Bound([k \in DOMAIN lexstat.data |->
                                   [lexstat.data[k] EXCEPT !.cogid = ids[k]]])
            /\ pc' = "align"
            /\ UNCHANGED <<failedOp, exception, exitCode>>
       \/ /\ Crash("cluster", "EngineError")
          /\ UNCHANGED lexstat
    /\ UNCHANGED <<wordlist, replace_tab, replace_newline, lpwl, hadTable,
                   hasCognateTable, args, lingpy, column, classify,
                   bad_tokens, cognates, written>>

\* lexstat = Alignments(lexstat, segments="tokens"); lexstat.align(model="sca")
Align ==
    /\ pc = "align"
    /\ engineLog' = Append(engineLog, Call("align", [model |-> "sca"]))
    /\ \E ok \in BOOLEAN :
         IF ok
         THEN /\ lexstat' = Bound([k \in DOMAIN lexstat.data |->
                                     [lexstat.data[k] EXCEPT
                                        !.alignment = lexstat.data[k].tokens]])
              /\ pc' = "write"
              /\ UNCHANGED <<failedOp, exception, exitCode>>
         ELSE /\ Crash("align", "EngineError")
              /\ UNCHANGED lexstat
    /\ UNCHANGED <<wordlist, replace_tab, replace_newline, lpwl, hadTable,
                   hasCognateTable, args, lingpy, column, classify,
                   bad_tokens, cognates, written>>

\* lexstat.output("tsv", ...);
\* cognate_table.write(cognatetable_from_lingpy(lexstat))
WriteTable ==
    /\ pc = "write"
    /\ engineLog' = Append(engineLog, Call("output", <<>>))
    /\ lingpy' = lexstat.data
    /\ LET res == cognatetable_from_lingpy(lexstat, lexstat.data, column)
       IN  IF res.exception = "none"
           THEN /\ cognates' = res.value
                /\ written' = TRUE
                /\ pc' = "exited"
                /\ exitCode' = 0
                /\ UNCHANGED <<failedOp, exception>>
           ELSE /\ Crash("cognatetable_from_lingpy", res.exception)
                /\ UNCHANGED <<cognates, written>>
    /\ UNCHANGED <<wordlist, replace_tab, replace_newline, lpwl, hadTable,
                   hasCognateTable, args, lexstat, column, classify,
                   bad_tokens>>

Next ==
    \/ Preflight
    \/ Convert
    \/ Construct
    \/ BadTokensLog
    \/ GetScorer
    \/ Cluster
    \/ Align
    \/ WriteTable

Spec == Init /\ [][Next]_vars

----------------------------------------------------------------------------
(* Properties of the pipeline *)

\* the positions of the engine log that hold a call of op
Calls(op) == {i \in DOMAIN engineLog : engineLog[i].op = op}

EngineOps == {"LexStat", "get_scorer", "cluster", "align", "output"}

\* C1: a run on a dataset that already had a CognateTable, without
\* --overwrite, ends with exit code 2 through a controlled exit, not through
\* an unhandled exception.
C1_AbortExitCode2 ==
    (pc = "exited" /\ hadTable /\ ~args.overwrite) =>
        (exitCode = 2 /\ exception = "SystemExit")

C9_ScanFailureTolerated ==
    pc = "exited" => failedOp # "find_bad_tokens"

\* C10: no engine operation happens before preflight has passed, and none at
\* all when preflight aborts; scorer training and clustering follow the
\* engine's construction, alignment follows clustering, the cognate table is
\* written only after alignment in a run without failure; a run that failed
\* has ended at the failing step and has written nothing.
C10_StageOrder ==
    /\ pc = "preflight" => engineLog = <<>>
    /\ (hadTable /\ ~args.overwrite) => (engineLog = <<>> /\ ~written)
    /\ \A i \in Calls("get_scorer") \cup Calls("cluster") :
         \E j \in Calls("LexStat") : j < i
    /\ \A i \in Calls("align") : \E j \in Calls("cluster") : j < i
    /\ written => (/\ failedOp = "none"
                   /\ \E i \in Calls("align") : \A j \in Calls("cluster") : j < i)
    /\ failedOp # "none" =>
         /\ pc = "exited"
         /\ ~written
         /\ failedOp \in EngineOps => engineLog[Len(engineLog)].op = failedOp
         /\ failedOp = "preflight" => engineLog = <<>>

\* a run that failed in clustering: it ended there, nothing was written
C10_Witness ==
    /\ pc = "exited"
    /\ failedOp = "cluster"
    /\ Calls("cluster") # {}
    /\ Calls("align") = {}
    /\ ~written

====
